---- MODULE Spec2Model ----
(***************************************************************************)
(* EvaluatePrequentialDelayed (skmultiflow/evaluation/                     *)
(* evaluate_prequential_delayed.py): the delayed-label prequential         *)
(* evaluation loop, its delay queue and its counters, as a state machine.  *)
(* One action per statement group of _train_and_test; pc is the position   *)
(* of the single thread of control.                                        *)
(***************************************************************************)
EXTENDS Integers, Sequences, FiniteSets, TLC

\* ------------------------------------------------------------------ bounds
MaxStream == 4      \* longest stream (number of samples it holds)
MaxDelay == 2       \* largest label delay, available_time - arrival_time
MaxElapsed == 1     \* wall-clock ticks a run can take

PretrainSizes == {0, 1, 2, 6}
BatchSizes == {1, 2}
MaxSamplesValues == {1, 3, 100}
NWaits == {1, 2}
ModelCounts == {1, 2}

MaxTimes == {1, MaxElapsed + 1}   \* a budget the clock reaches, and one it does not

Raisable == {"KeyboardInterrupt", "Exception"}

\* ------------------------------------------------------------------- state
VARIABLES
    pc,                  \* position in _train_and_test
    n_wait, max_samples, batch_size, pretrain_size, max_time, n_models,
    restart_stream,      \* configuration: restart the stream when done
    only_data_points,    \* configuration: metrics holds nothing but data points
    n_samples,           \* stream: number of samples it holds
    length_known,        \* stream: n_remaining_samples() knows the length
    n_targets,           \* stream: targets per sample (more than 1: multi-target task)
    sample_idx,          \* stream: samples handed out so far
    actual_max_samples, global_sample_count, update_count, first_run,
    current_timestamp,
    delay_queue,         \* rows of the delay queue, in index order
    delay_queue_set,     \* the attribute self.delay_queue exists
    elapsed,             \* self._end_time - self._start_time
    current_batch,       \* X, arrival_time, available_time, y_real of the batch
    X_delayed, y_real_delayed, y_pred_delayed, y_pred,
    fitted,              \* per model: the samples its partial_fit has received
    mean_eval, current_eval, \* per model: the add_result calls, in order
    snapshots,           \* global_sample_count at each _update_metrics call
    exc,                 \* the exception the loop caught or the run raised
    iteration,           \* RUNNING iterations started
    h_predicted,         \* history: per model, the samples its predict has answered
    h_output,            \* history: per model, sample -> what its predict answered
    h_stored,            \* history: sample -> prediction row stored on enqueue
    h_released,          \* history: sample -> number of drains that returned it
    h_due,               \* history: samples a drain met in the queue while due
    h_drain,             \* history: the last drain, [t, before, out, left]
    h_entry,             \* history: global_sample_count when the iteration began
    h_raised_at,         \* history: the statement that raised exc
    summaries,           \* evaluation_summary calls
    restarts,            \* stream.restart calls
    returned             \* _train_and_test has returned the models

cfgvars == <<n_wait, max_samples, batch_size, pretrain_size, max_time, n_models,
             n_samples, length_known, n_targets, restart_stream, only_data_points>>
outvars == <<summaries, restarts, returned>>
excvars == <<exc, h_raised_at>>
loopvars == <<actual_max_samples, global_sample_count, update_count, first_run,
              current_timestamp, elapsed, iteration>>
queuevars == <<delay_queue, delay_queue_set>>
localvars == <<current_batch, X_delayed, y_real_delayed, y_pred_delayed, y_pred>>
modelvars == <<fitted, h_predicted, h_output>>
metricvars == <<mean_eval, current_eval, snapshots>>
histvars == <<h_stored, h_released, h_due, h_drain, h_entry>>
vars == <<pc, cfgvars, sample_idx, loopvars, queuevars, localvars, modelvars,
          metricvars, excvars, histvars, outvars>>

Models == 1..n_models

\* ----------------------------------------------------------------- helpers
Min(a, b) == IF a < b THEN a ELSE b

Range(s) == {s[i] : i \in 1..Len(s)}

\* np.array(m).T.tolist(): rows become columns; an empty list stays empty.
Transpose(m) ==
    IF m = <<>> THEN <<>>
    ELSE [c \in 1..Len(m[1]) |-> [r \in 1..Len(m) |-> m[r][c]]]

\* ndarray.T of an array of three axes: the order of the axes is reversed
ReverseAxes(a) ==
    IF a = <<>> THEN <<>>
    ELSE [c \in 1..Len(a[1][1]) |->
            [b \in 1..Len(a[1]) |-> [r \in 1..Len(a) |-> a[r][b][c]]]]

\* np.array(m).T.tolist() where the entries of m are predictions: with one
\* target a prediction is a scalar and m has two axes, with several targets
\* a prediction is an array over the targets and m has three axes.
NpTranspose(m) == IF n_targets = 1 THEN Transpose(m) ELSE ReverseAxes(m)

\* frame[name].to_list()
Column(rows, name) == [i \in 1..Len(rows) |-> rows[i][name]]

\* ------------------------------------------------------------------ stream
\* The temporal stream: sample i arrives at time i and carries label i; its
\* label delay is drawn when the sample is handed out.
HasMoreSamples == sample_idx < n_samples

NRemainingSamples == IF length_known THEN n_samples - sample_idx ELSE -1

\* next_sample(n): the next n samples, fewer when the stream runs out.
NextSampleIds(n) == (sample_idx + 1)..Min(sample_idx + n, n_samples)

\* ------------------------------------------------------------- delay queue
\* sort_values(by='available_time') with the default kind (quicksort, not
\* stable), then reset_index: the rows in ascending available_time; the
\* order among rows of equal available_time is whatever the sort leaves.
RECURSIVE SortedOrders(_)
SortedOrders(S) ==
    IF S = {} THEN {<<>>}
    ELSE UNION { { <<r>> \o t : t \in SortedOrders(S \ {r}) } :
                 r \in {r \in S : \A u \in S : r.available_time <= u.available_time} }

\* Variant of sort_delay_queue: the rows stay in the order of the append.
AppendOrder(rows) == {rows}

\* lines 260-264
sort_delay_queue(rows) == SortedOrders(Range(rows))

\* Variant of DelayedRows: the comparison is strict.
DelayedRowsStrict(rows, t) == SelectSeq(rows, LAMBDA r : r.available_time < t)

\* delay_queue[delay_queue['available_time'] <= current_timestamp]
DelayedRows(rows, t) == SelectSeq(rows, LAMBDA r : r.available_time <= t)

\* Variant of KeptRows: the rows due exactly at t stay in the queue too.
KeptRowsInclusive(rows, t) == SelectSeq(rows, LAMBDA r : r.available_time >= t)

\* delay_queue[delay_queue['available_time'] > current_timestamp]
KeptRows(rows, t) == SelectSeq(rows, LAMBDA r : r.available_time > t)

\* zip(X, y_real, y_pred, arrival_time, available_time) as frame rows; zip
\* stops at the shortest of its arguments.
DelayFrame(batch, preds) ==
    [i \in 1..Min(Len(batch), Len(preds)) |->
        [X |-> batch[i].X, y_real |-> batch[i].y_real, y_pred |-> preds[i],
         arrival_time |-> batch[i].arrival_time,
         available_time |-> batch[i].available_time]]

\* ------------------------------------------------------------------ models
\* What model j answers for sample x: it depends on the model, the sample
\* and what the model has been fitted on so far.
Predict(j, x) == [model |-> j, X |-> x, seen |-> fitted[j]]

\* The entry of model j's predict(X) for sample x: one label with one
\* target, one label per target with several.
PredictOutput(j, x) ==
    IF n_targets = 1 THEN Predict(j, x)
    ELSE [t \in 1..n_targets |->
            [model |-> j, X |-> x, seen |-> fitted[j], target |-> t]]

\* Variant of FitPairs: the models are fitted on the batch just pulled.
FitPairsNewBatch(Xs, ys) == {<<current_batch[i].X, current_batch[i].y_real>> :
                               i \in 1..Len(current_batch)}

\* The (X, y) pairs of one partial_fit call.
FitPairs(Xs, ys) == {<<Xs[i], ys[i]>> : i \in 1..Min(Len(Xs), Len(ys))}

\* ----------------------------------------------------------------- metrics
\* The add_result calls of one _update_metrics_delayed for model j, in order.
AddResults(j, ys, preds) ==
    [i \in 1..Len(preds[1]) |-> <<ys[i], preds[j][i]>>]

\* Variant of SnapshotDue: no catching up when the cadence has fallen behind.
SnapshotDueNoCatchUp(count, uc) ==
    \/ count % n_wait = 0
    \/ count >= max_samples

\* Variant of SnapshotDue: a snapshot is due at every call.
SnapshotAlwaysDue(count, uc) == TRUE

\* (count % n_wait == 0) or (count >= max_samples)
\*   or (count / n_wait > update_count + 1), with / the true division
SnapshotDue(count, uc) ==
    \/ count % n_wait = 0
    \/ count >= max_samples
    \/ count > (uc + 1) * n_wait

\* `exc is KeyboardInterrupt`: the caught exception is an instance, never
\* the class object itself, so the identity test is false for every exc.
ExcIsKeyboardInterrupt(e) == FALSE

\* Variant of CountAfterPretrain: pretraining samples are not counted.
CountSkippingPretrain(count) == count

\* line 400: self.global_sample_count += self.pretrain_size
CountAfterPretrain(count) == count + pretrain_size

\* Variant of CountAfterPredict: the count advances by the rows predicted.
CountByRows(count) == count + Len(current_batch)

\* line 332: self.global_sample_count += self.batch_size
CountAfterPredict(count) == count + batch_size

\* Variant of BatchTimestamp: the arrival time of the batch's first sample.
BatchTimestampFirst(batch) == batch[1].arrival_time

\* line 437: arrival_time.to_list()[-1]
BatchTimestamp(batch) == batch[Len(batch)].arrival_time

\* Variant of LoopCondition: the time budget is not tested.
LoopConditionUntimed ==
    /\ global_sample_count < actual_max_samples
    /\ HasMoreSamples

\* while-condition of the RUNNING loop
LoopCondition ==
    /\ global_sample_count < actual_max_samples
    /\ elapsed < max_time
    /\ HasMoreSamples

\* Variant of StepAfter: the new batch is predicted before the models are
\* fitted on the released rows.
StepAfterPredictFirst(p) ==
    CASE p = "next_sample" -> "timestamp"
      [] p = "timestamp" -> "get_delayed"
      [] p = "get_delayed" -> "metrics"
      [] p = "metrics" -> "predict"
      [] p = "predict" -> "classifiers"
      [] p = "classifiers" -> "enqueue"
      [] p = "enqueue" -> "end_time"
      [] p = "end_time" -> "while"

\* Variant of StepAfter: the new batch is predicted and enqueued before the
\* queue is drained.
StepAfterEnqueueFirst(p) ==
    CASE p = "next_sample" -> "timestamp"
      [] p = "timestamp" -> "predict"
      [] p = "predict" -> "enqueue"
      [] p = "enqueue" -> "get_delayed"
      [] p = "get_delayed" -> "metrics"
      [] p = "metrics" -> "classifiers"
      [] p = "classifiers" -> "end_time"
      [] p = "end_time" -> "while"

\* The statement that follows statement p of a loop iteration.
StepAfter(p) ==
    CASE p = "next_sample" -> "timestamp"
      [] p = "timestamp" -> "get_delayed"
      [] p = "get_delayed" -> "metrics"
      [] p = "metrics" -> "classifiers"
      [] p = "classifiers" -> "predict"
      [] p = "predict" -> "enqueue"
      [] p = "enqueue" -> "end_time"
      [] p = "end_time" -> "while"

\* -------------------------------------------------------------------- Init
\* Everything but the two options that only the last statements read.
InitRun ==
    /\ pc = "start"
    /\ n_wait \in NWaits
    /\ max_samples \in MaxSamplesValues
    /\ batch_size \in BatchSizes
    /\ pretrain_size \in PretrainSizes
    /\ max_time \in MaxTimes
    /\ n_models \in ModelCounts
    /\ n_samples \in 1..MaxStream
    /\ length_known \in BOOLEAN
    /\ sample_idx = 0
    /\ actual_max_samples = 0
    /\ global_sample_count = 0
    /\ update_count = 0
    /\ first_run = TRUE
    /\ current_timestamp = 0
    /\ delay_queue = <<>>
    /\ delay_queue_set = FALSE
    /\ elapsed = 0
    /\ current_batch = <<>>
    /\ X_delayed = <<>>
    /\ y_real_delayed = <<>>
    /\ y_pred_delayed = <<>>
    /\ y_pred = <<>>
    /\ fitted = [j \in Models |-> {}]
    /\ mean_eval = [j \in Models |-> <<>>]
    /\ current_eval = [j \in Models |-> <<>>]
    /\ snapshots = <<>>
    /\ exc = "none"
    /\ iteration = 0
    /\ h_predicted = [j \in Models |-> {}]
    /\ h_output = [j \in Models |-> <<>>]
    /\ h_stored = <<>>
    /\ h_released = [i \in 1..n_samples |-> 0]
    /\ h_due = {}
    /\ h_drain = [t |-> 0, before |-> <<>>, out |-> <<>>, left |-> <<>>]
    /\ h_entry = 0
    /\ h_raised_at = "none"
    /\ summaries = 0
    /\ restarts = 0
    /\ returned = FALSE

\* The constructor's defaults: restart_stream=True, metrics=None (accuracy
\* and kappa).
Init ==
    /\ InitRun
    /\ n_targets = 1
    /\ restart_stream = TRUE
    /\ only_data_points = FALSE

\* Every value of restart_stream, and metrics with or without more than
\* data points.
InitAnyFinish ==
    /\ InitRun
    /\ n_targets = 1
    /\ restart_stream \in BOOLEAN
    /\ only_data_points \in BOOLEAN

\* ----------------------------------------------------------------- actions
\* Variant of Caught: the handler goes on with the next iteration.
CaughtAndContinue(e) ==
    /\ exc' = e
    /\ h_raised_at' = pc
    /\ pc' = "while"

\* An exception caught by the loop's `except BaseException`.
Caught(e) ==
    /\ exc' = e
    /\ h_raised_at' = pc
    /\ pc' = "except"

\* lines 362-371: the sample budget of the run
Start ==
    /\ pc = "start"
    /\ actual_max_samples' =
          IF NRemainingSamples = -1 \/ NRemainingSamples > max_samples
          THEN max_samples ELSE NRemainingSamples
    /\ first_run' = TRUE
    /\ pc' = IF pretrain_size > 0 THEN "pretrain" ELSE "evaluating"
    /\ UNCHANGED <<cfgvars, outvars, sample_idx, global_sample_count, update_count,
                   current_timestamp, elapsed, iteration, queuevars, localvars,
                   modelvars, metricvars, excvars, histvars>>

\* lines 372-416: fit every model on the first pretrain_size samples, set
\* the watermark and create the empty delay queue
Pretrain ==
    /\ pc = "pretrain"
    /\ LET ids == NextSampleIds(pretrain_size)
           last == Min(sample_idx + pretrain_size, n_samples)
       IN /\ fitted' = [j \in Models |-> fitted[j] \cup {<<i, i>> : i \in ids}]
          /\ sample_idx' = last
          /\ current_timestamp' = last
    /\ global_sample_count' = CountAfterPretrain(global_sample_count)
    /\ first_run' = FALSE
    /\ \E q \in sort_delay_queue(<<>>) : delay_queue' = q
    /\ delay_queue_set' = TRUE
    /\ pc' = "evaluating"
    /\ UNCHANGED <<cfgvars, outvars, actual_max_samples, update_count, elapsed, iteration,
                   localvars, h_predicted, h_output, metricvars, excvars, histvars>>

\* line 418
Evaluating ==
    /\ pc = "evaluating"
    /\ update_count' = 0
    /\ pc' = "while"
    /\ UNCHANGED <<cfgvars, outvars, sample_idx, actual_max_samples, global_sample_count,
                   first_run, current_timestamp, elapsed, iteration, queuevars,
                   localvars, modelvars, metricvars, excvars, histvars>>

\* lines 420-422, condition true: one more iteration
LoopEnter ==
    /\ pc = "while"
    /\ LoopCondition
    /\ iteration' = iteration + 1
    /\ h_entry' = global_sample_count
    /\ pc' = "next_sample"
    /\ UNCHANGED <<cfgvars, outvars, sample_idx, actual_max_samples, global_sample_count,
                   update_count, first_run, current_timestamp, elapsed, queuevars,
                   localvars, modelvars, metricvars, excvars, h_stored, h_released,
                   h_due, h_drain>>

\* lines 420-422, condition false: leave the loop
LoopExit ==
    /\ pc = "while"
    /\ ~LoopCondition
    /\ pc' = "flush"
    /\ UNCHANGED <<cfgvars, outvars, sample_idx, loopvars, queuevars, localvars, modelvars,
                   metricvars, excvars, histvars>>

\* lines 426-434: pull the next batch; the stream may raise
NextSample ==
    /\ pc = "next_sample"
    /\ \/ /\ \E d \in [NextSampleIds(batch_size) -> 0..MaxDelay] :
               current_batch' =
                  [k \in 1..Cardinality(NextSampleIds(batch_size)) |->
                     LET i == sample_idx + k
                     IN [X |-> i, y_real |-> i, arrival_time |-> i,
                         available_time |-> i + d[i]]]
          /\ sample_idx' = Min(sample_idx + batch_size, n_samples)
          /\ pc' = StepAfter(pc)
          /\ UNCHANGED excvars
       \/ /\ \E e \in Raisable : Caught(e)
          /\ UNCHANGED <<current_batch, sample_idx>>
    /\ UNCHANGED <<cfgvars, outvars, loopvars, queuevars, X_delayed, y_real_delayed,
                   y_pred_delayed, y_pred, modelvars, metricvars, histvars>>

\* line 437: the watermark is the arrival time of the batch's last sample
UpdateTimestamp ==
    /\ pc = "timestamp"
    /\ current_timestamp' = BatchTimestamp(current_batch)
    /\ pc' = StepAfter(pc)
    /\ UNCHANGED <<cfgvars, outvars, sample_idx, actual_max_samples, global_sample_count,
                   update_count, first_run, elapsed, iteration, queuevars,
                   localvars, modelvars, metricvars, excvars, histvars>>

\* lines 266-274: the body of _get_delayed_samples on an existing queue
TakeDelayedSamples ==
    LET delayed_samples == DelayedRows(delay_queue, current_timestamp)
        kept == KeptRows(delay_queue, current_timestamp)
    IN /\ delay_queue' = kept
       /\ X_delayed' = Column(delayed_samples, "X")
       /\ y_real_delayed' = Column(delayed_samples, "y_real")
       /\ y_pred_delayed' = NpTranspose(Column(delayed_samples, "y_pred"))
       /\ h_released' = [i \in DOMAIN h_released |->
             h_released[i]
               + Cardinality({k \in 1..Len(delayed_samples) :
                                 delayed_samples[k].X = i})]
       /\ h_due' = h_due \cup {r.X : r \in {r \in Range(delay_queue) :
                                  r.available_time <= current_timestamp}}
       /\ h_drain' = [t |-> current_timestamp, before |-> delay_queue,
                      out |-> delayed_samples, left |-> kept]

\* lines 440, 266-274: take the rows whose label is available out of the
\* queue; without a delay queue the attribute access raises
get_delayed_samples ==
    /\ pc = "get_delayed"
    /\ IF delay_queue_set
       THEN /\ TakeDelayedSamples
            /\ pc' = StepAfter(pc)
            /\ UNCHANGED excvars
       ELSE /\ Caught("AttributeError")
            /\ UNCHANGED <<delay_queue, X_delayed, y_real_delayed, y_pred_delayed,
                           h_released, h_due, h_drain>>
    /\ UNCHANGED <<cfgvars, outvars, sample_idx, loopvars, delay_queue_set, current_batch,
                   y_pred, modelvars, metricvars, h_stored, h_entry>>

\* lines 442, 304-317: feed the released rows to both accumulators of every
\* model, then snapshot when due; nothing happens without released rows.
\* _update_metrics (plot and file output) may raise.
update_metrics_delayed ==
    /\ pc = "metrics"
    /\ IF Len(y_pred_delayed) > 0
       THEN /\ mean_eval' = [j \in Models |->
                  mean_eval[j] \o AddResults(j, y_real_delayed, y_pred_delayed)]
            /\ current_eval' = [j \in Models |->
                  current_eval[j] \o AddResults(j, y_real_delayed, y_pred_delayed)]
            /\ IF SnapshotDue(global_sample_count, update_count)
               THEN \/ /\ snapshots' = Append(snapshots, global_sample_count)
                       /\ update_count' = update_count + 1
                       /\ pc' = StepAfter(pc)
                       /\ UNCHANGED excvars
                    \/ /\ \E e \in Raisable : Caught(e)
                       /\ UNCHANGED <<snapshots, update_count>>
               ELSE /\ pc' = StepAfter(pc)
                    /\ UNCHANGED <<snapshots, update_count, excvars>>
       ELSE /\ pc' = StepAfter(pc)
            /\ UNCHANGED <<metricvars, update_count, excvars>>
    /\ UNCHANGED <<cfgvars, outvars, sample_idx, actual_max_samples, global_sample_count,
                   first_run, current_timestamp, elapsed, iteration, queuevars,
                   localvars, modelvars, histvars>>

\* lines 445, 276-302: partial_fit of every model, in order, on the released
\* rows; model f raising leaves the models before it fitted
update_classifiers ==
    /\ pc = "classifiers"
    /\ IF Len(X_delayed) > 0
       THEN \/ /\ fitted' = [j \in Models |->
                     fitted[j] \cup FitPairs(X_delayed, y_real_delayed)]
               /\ first_run' = FALSE
               /\ pc' = StepAfter(pc)
               /\ UNCHANGED excvars
            \/ \E f \in Models :
               /\ fitted' = [j \in Models |->
                     IF j < f THEN fitted[j] \cup FitPairs(X_delayed, y_real_delayed)
                     ELSE fitted[j]]
               /\ \E e \in Raisable : Caught(e)
               /\ UNCHANGED first_run
       ELSE /\ pc' = StepAfter(pc)
            /\ UNCHANGED <<fitted, first_run, excvars>>
    /\ UNCHANGED <<cfgvars, outvars, sample_idx, actual_max_samples, global_sample_count,
                   update_count, current_timestamp, elapsed, iteration, queuevars,
                   localvars, h_predicted, h_output, metricvars, histvars>>

\* lines 448, 319-336: predict of every model, in order, on the new batch;
\* the count advances by batch_size and the predictions are transposed to
\* one row per sample. Model f raising leaves the count and y_pred as they were.
predict_samples ==
    /\ pc = "predict"
    /\ LET X == Column(current_batch, "X")
           prediction == [i \in Models |-> [k \in 1..Len(X) |-> PredictOutput(i, X[k])]]
           answered(i) == [x \in DOMAIN h_output[i] \cup Range(X) |->
                              IF x \in Range(X) THEN PredictOutput(i, x)
                              ELSE h_output[i][x]]
       IN \/ /\ h_predicted' = [i \in Models |-> h_predicted[i] \cup Range(X)]
             /\ h_output' = [i \in Models |-> answered(i)]
             /\ global_sample_count' = CountAfterPredict(global_sample_count)
             /\ y_pred' = NpTranspose(prediction)
             /\ pc' = StepAfter(pc)
             /\ UNCHANGED excvars
          \/ \E f \in Models :
             /\ h_predicted' = [i \in Models |->
                   IF i < f THEN h_predicted[i] \cup Range(X) ELSE h_predicted[i]]
             /\ h_output' = [i \in Models |->
                   IF i < f THEN answered(i) ELSE h_output[i]]
             /\ \E e \in Raisable : Caught(e)
             /\ UNCHANGED <<global_sample_count, y_pred>>
    /\ UNCHANGED <<cfgvars, outvars, sample_idx, actual_max_samples, update_count, first_run,
                   current_timestamp, elapsed, iteration, queuevars, current_batch,
                   X_delayed, y_real_delayed, y_pred_delayed, fitted, metricvars,
                   histvars>>

\* lines 451, 338-344: append the batch with its predictions and re-sort
update_delayed_queue ==
    /\ pc = "enqueue"
    /\ LET delay_frame == DelayFrame(current_batch, y_pred)
       IN /\ \E q \in sort_delay_queue(delay_queue \o delay_frame) :
                delay_queue' = q
          /\ h_stored' = [i \in DOMAIN h_stored \cup {r.X : r \in Range(delay_frame)} |->
                IF \E r \in Range(delay_frame) : r.X = i
                THEN (CHOOSE r \in Range(delay_frame) : r.X = i).y_pred
                ELSE h_stored[i]]
    /\ pc' = StepAfter(pc)
    /\ UNCHANGED <<cfgvars, outvars, sample_idx, loopvars, delay_queue_set, localvars,
                   modelvars, metricvars, excvars, h_released, h_due, h_drain, h_entry>>

\* line 453: the clock is read; any amount of time may have passed
EndTime ==
    /\ pc = "end_time"
    /\ \E t \in elapsed..MaxElapsed : elapsed' = t
    /\ pc' = StepAfter(pc)
    /\ UNCHANGED <<cfgvars, outvars, sample_idx, actual_max_samples, global_sample_count,
                   update_count, first_run, current_timestamp, iteration, queuevars,
                   localvars, modelvars, metricvars, excvars, histvars>>

\* lines 454-458: log, snapshot if `exc is KeyboardInterrupt`, break
Except ==
    /\ pc = "except"
    /\ snapshots' = IF ExcIsKeyboardInterrupt(exc)
                    THEN Append(snapshots, global_sample_count) ELSE snapshots
    /\ pc' = "flush"
    /\ UNCHANGED <<cfgvars, outvars, sample_idx, loopvars, queuevars, localvars, modelvars,
                   mean_eval, current_eval, excvars, histvars>>

\* lines 462-464: look at what is left in the queue; without a delay queue
\* the attribute access raises out of _train_and_test
FlushCheck ==
    /\ pc = "flush"
    /\ IF ~delay_queue_set
       THEN /\ exc' = "AttributeError"
            /\ h_raised_at' = pc
            /\ pc' = "raised"
            /\ UNCHANGED delay_queue
       ELSE IF Len(delay_queue) > 0
       THEN /\ \E q \in sort_delay_queue(delay_queue) : delay_queue' = q
            /\ pc' = "flush_while"
            /\ UNCHANGED excvars
       ELSE /\ pc' = "finish"
            /\ UNCHANGED <<delay_queue, excvars>>
    /\ UNCHANGED <<cfgvars, outvars, sample_idx, loopvars, delay_queue_set, localvars,
                   modelvars, metricvars, histvars>>

\* Variant of DropFirst: no row is dropped.
DropNone(rows, n) == rows

\* The rows left after dropping the first n.
DropFirst(rows, n) == SubSeq(rows, n + 1, Len(rows))

\* Variant of FlushChunk: the rows of the chunk are given to partial_fit
\* before they are dropped.
FlushChunkFitting ==
    /\ pc = "flush_while"
    /\ Len(delay_queue) > 0 /\ Len(delay_queue) - batch_size > 0
    /\ fitted' = [j \in Models |->
          fitted[j] \cup {<<delay_queue[k].X, delay_queue[k].y_real>> : k \in 1..batch_size}]
    /\ delay_queue' = DropFirst(delay_queue, batch_size)
    /\ pc' = "flush_while"
    /\ UNCHANGED <<cfgvars, outvars, sample_idx, loopvars, delay_queue_set, localvars,
                   h_predicted, h_output, metricvars, excvars, histvars>>

\* lines 466-471: while more than batch_size rows are left, drop batch_size
FlushChunk ==
    /\ pc = "flush_while"
    /\ Len(delay_queue) > 0 /\ Len(delay_queue) - batch_size > 0
    /\ delay_queue' = DropFirst(delay_queue, batch_size)
    /\ pc' = "flush_while"
    /\ UNCHANGED <<cfgvars, outvars, sample_idx, loopvars, delay_queue_set, localvars,
                   modelvars, metricvars, excvars, histvars>>

\* lines 472-475: the rows of the last chunk are left as they are (pass)
FlushRest ==
    /\ pc = "flush_while"
    /\ ~(Len(delay_queue) > 0 /\ Len(delay_queue) - batch_size > 0)
    /\ pc' = "finish"
    /\ UNCHANGED <<cfgvars, outvars, sample_idx, loopvars, queuevars, localvars, modelvars,
                   metricvars, excvars, histvars>>

\* lines 477-488: flush the file buffer, print the summary unless metrics
\* holds nothing but data points, restart the stream if asked to, and
\* return the models
Finish ==
    /\ pc = "finish"
    /\ summaries' = IF only_data_points THEN summaries ELSE summaries + 1
    /\ restarts' = IF restart_stream THEN restarts + 1 ELSE restarts
    /\ sample_idx' = IF restart_stream THEN 0 ELSE sample_idx
    /\ returned' = TRUE
    /\ pc' = "done"
    /\ UNCHANGED <<cfgvars, loopvars, queuevars, localvars, modelvars,
                   metricvars, excvars, histvars>>

Next ==
    \/ Start
    \/ Pretrain
    \/ Evaluating
    \/ LoopEnter
    \/ LoopExit
    \/ NextSample
    \/ UpdateTimestamp
    \/ get_delayed_samples
    \/ update_metrics_delayed
    \/ update_classifiers
    \/ predict_samples
    \/ update_delayed_queue
    \/ EndTime
    \/ Except
    \/ FlushCheck
    \/ FlushChunk
    \/ FlushRest
    \/ Finish

Spec == Init /\ [][Next]_vars

\* Runs with two models and a snapshot cadence of two: either model can be
\* the one that raises, and a snapshot is due in some iterations and not in
\* others. Neither value enters the loop conditions.
InitFair ==
    /\ Init
    /\ n_models = 2
    /\ n_wait = 2

\* The run is one sequential thread: whenever a statement can be executed,
\* it is.
FairSpec == InitFair /\ [][Next]_vars /\ WF_vars(Next)

SpecAnyFinish == InitAnyFinish /\ [][Next]_vars

\* A multi-target task: the stream has two targets per sample, so predict
\* answers an array of two per row; batches of one row.
InitMultiTarget ==
    /\ InitRun
    /\ n_targets = 2
    /\ batch_size = 1
    /\ restart_stream = TRUE
    /\ only_data_points = FALSE

SpecMultiTarget == InitMultiTarget /\ [][Next]_vars

\* ------------------------------------------ _get_delayed_samples on its own
\* A queue as an enqueue leaves it: rows of samples that arrived up to the
\* watermark, each with its delay, in ascending available_time.
QueueRow(i, d) ==
    [X |-> i, y_real |-> i,
     y_pred |-> [j \in 1..n_models |-> [model |-> j, X |-> i, seen |-> {}]],
     arrival_time |-> i, available_time |-> i + d]

InitDrainTwice ==
    /\ pc = "first_call"
    /\ n_wait = 1
    /\ max_samples = 100
    /\ batch_size = 1
    /\ pretrain_size = 1
    /\ max_time = 1
    /\ n_models \in ModelCounts
    /\ restart_stream = TRUE
    /\ only_data_points = FALSE
    /\ n_samples = MaxStream
    /\ length_known = TRUE
    /\ n_targets = 1
    /\ sample_idx \in 1..MaxStream
    /\ actual_max_samples = 100
    /\ global_sample_count = sample_idx
    /\ update_count = 0
    /\ first_run = FALSE
    /\ current_timestamp = sample_idx
    /\ \E S \in SUBSET (1..current_timestamp) :
         \E d \in [S -> 0..MaxDelay] :
            delay_queue \in SortedOrders({QueueRow(i, d[i]) : i \in S})
    /\ delay_queue_set = TRUE
    /\ elapsed = 0
    /\ current_batch = <<>>
    /\ X_delayed = <<>>
    /\ y_real_delayed = <<>>
    /\ y_pred_delayed = <<>>
    /\ y_pred = <<>>
    /\ fitted = [j \in Models |-> {}]
    /\ mean_eval = [j \in Models |-> <<>>]
    /\ current_eval = [j \in Models |-> <<>>]
    /\ snapshots = <<>>
    /\ exc = "none"
    /\ iteration = 0
    /\ h_predicted = [j \in Models |-> {}]
    /\ h_output = [j \in Models |-> <<>>]
    /\ h_stored = <<>>
    /\ h_released = [i \in 1..n_samples |-> 0]
    /\ h_due = {}
    /\ h_drain = [t |-> 0, before |-> <<>>, out |-> <<>>, left |-> <<>>]
    /\ h_entry = 0
    /\ h_raised_at = "none"
    /\ summaries = 0
    /\ restarts = 0
    /\ returned = FALSE

\* lines 266-274, called on the queue as it stands
FirstCall ==
    /\ pc = "first_call"
    /\ TakeDelayedSamples
    /\ pc' = "second_call"
    /\ UNCHANGED <<cfgvars, outvars, sample_idx, loopvars, delay_queue_set, current_batch,
                   y_pred, modelvars, metricvars, excvars, h_stored, h_entry>>

\* lines 266-274, called again: same watermark, nothing enqueued in between
SecondCall ==
    /\ pc = "second_call"
    /\ TakeDelayedSamples
    /\ pc' = "called_twice"
    /\ UNCHANGED <<cfgvars, outvars, sample_idx, loopvars, delay_queue_set, current_batch,
                   y_pred, modelvars, metricvars, excvars, h_stored, h_entry>>

NextDrainTwice ==
    \/ FirstCall
    \/ SecondCall

SpecDrainTwice == InitDrainTwice /\ [][NextDrainTwice]_vars

\* ------------------------------------------------------------ properties
\* The samples the pretraining block takes, and those the loop pulls.
PretrainIds == IF pretrain_size > 0 THEN 1..Min(pretrain_size, n_samples) ELSE {}
RunningIds == (1..n_samples) \ PretrainIds
Released == {i \in DOMAIN h_released : h_released[i] >= 1}
InIteration == {"next_sample", "timestamp", "get_delayed", "metrics",
                "classifiers", "predict", "enqueue", "end_time", "except"}
AfterLoop == {"flush", "flush_while", "finish", "done", "raised"}

\* C1: no label leakage. Whenever a model has been fitted on a sample pulled
\* by the loop, that sample's row was stored in the delay queue with one
\* prediction per model, every model's predict had answered for the sample,
\* and each stored prediction was made by a model that had not yet been
\* fitted on the sample.
NoLabelLeakage ==
    \A j \in Models : \A p \in fitted[j] :
        p[1] \in RunningIds =>
            /\ p[1] \in DOMAIN h_stored
            /\ Len(h_stored[p[1]]) = n_models
            /\ \A k \in Models :
                  /\ p[1] \in h_predicted[k]
                  /\ h_stored[p[1]][k].model = k
                  /\ h_stored[p[1]][k].X = p[1]
                  /\ \A q \in h_stored[p[1]][k].seen : q[1] # p[1]

\* C1 witness: two models, and one has been fitted on a sample of the loop.
LeakageWitness ==
    /\ n_models = 2
    /\ \E j \in Models : \E p \in fitted[j] : p[1] \in RunningIds

\* C2: a drain at watermark t returns exactly the queued rows with
\* available_time <= t and leaves exactly those with available_time > t; a
\* sample has been released iff some drain met it in the queue with a
\* watermark >= its available_time, and no sample is returned by two drains.
DrainReleasesExactlyDue ==
    /\ Range(h_drain.out) =
          {r \in Range(h_drain.before) : r.available_time <= h_drain.t}
    /\ Range(h_drain.left) =
          {r \in Range(h_drain.before) : r.available_time > h_drain.t}
    /\ Len(h_drain.out) + Len(h_drain.left) = Len(h_drain.before)
    /\ \A i \in DOMAIN h_released :
          /\ h_released[i] <= 1
          /\ h_released[i] = 1 <=> i \in h_due

\* C2 witness: a drain that released some rows and left others.
DrainWitness ==
    /\ h_drain.out # <<>>
    /\ h_drain.left # <<>>
    /\ \E i \in DOMAIN h_released : h_released[i] = 1

\* C3 (as claimed): rows of equal available_time keep their insertion order,
\* in the queue after every re-sort and in what a drain returns.
TiesKeepInsertionOrder ==
    /\ \A a, b \in 1..Len(delay_queue) :
          (a < b /\ delay_queue[a].available_time = delay_queue[b].available_time)
             => delay_queue[a].X < delay_queue[b].X
    /\ \A a, b \in 1..Len(h_drain.out) :
          (a < b /\ h_drain.out[a].available_time = h_drain.out[b].available_time)
             => h_drain.out[a].X < h_drain.out[b].X

\* C4 (as claimed): with pretrain_size = 0 the loop's iterations work on a
\* delay queue that starts empty and the run ends in DONE: no iteration fails
\* for want of the queue and nothing is raised out of the run.
NoPretrainRunsToDone ==
    pretrain_size = 0 => (pc # "raised" /\ exc # "AttributeError")

\* C5 (as claimed): every iteration adds exactly batch_size to
\* global_sample_count, and the count never exceeds
\* actual_max_samples + batch_size - 1, whatever the configuration.
CountWithinBudgetAlways ==
    /\ pc # "start" => global_sample_count <= actual_max_samples + batch_size - 1
    /\ (iteration >= 1 /\ pc \in {"while"} \cup AfterLoop)
          => global_sample_count = h_entry + batch_size

\* C5 (amended): an iteration adds exactly batch_size once its predictions
\* are made and nothing if an exception ends it before; the count stays
\* <= actual_max_samples + batch_size - 1 when pretrain_size <=
\* actual_max_samples, and otherwise stays at pretrain_size with no iteration.
CountAdvancesByBatch ==
    /\ (pc \notin {"start", "pretrain"} /\ pretrain_size <= actual_max_samples)
          => global_sample_count <= actual_max_samples + batch_size - 1
    /\ (pc \notin {"start", "pretrain"} /\ pretrain_size > actual_max_samples)
          => (global_sample_count = pretrain_size /\ iteration = 0)
    /\ (iteration >= 1 /\ pc \in {"enqueue", "end_time", "while"})
          => global_sample_count = h_entry + batch_size
    /\ (iteration >= 1 /\ pc \in InIteration \ {"enqueue", "end_time"})
          => global_sample_count = h_entry
    /\ (iteration >= 1 /\ pc \in AfterLoop)
          => global_sample_count = h_entry + (IF exc = "none" THEN batch_size ELSE 0)

\* C5 witness: an iteration with batch_size 2 has taken the count to the
\* limit actual_max_samples + batch_size - 1.
CountAtLimitWitness ==
    /\ pc = "while"
    /\ iteration >= 1
    /\ batch_size = 2
    /\ global_sample_count = actual_max_samples + batch_size - 1

\* C6 (as claimed): global_sample_count is the number of samples that have
\* gone through the models' predict.
CountIsPredictedSamples ==
    global_sample_count = Cardinality(h_predicted[n_models])

\* C6 (amended): global_sample_count is pretrain_size, once the pretraining
\* block has run, plus batch_size for every batch predicted (a batch cut
\* short by the end of the stream counts as batch_size); so it is never less
\* than the pretraining size plus the number of samples predicted.
CountIsPretrainPlusBatches ==
    LET pre == IF pretrain_size > 0 /\ pc \notin {"start", "pretrain"}
               THEN pretrain_size ELSE 0
        predicted == Cardinality(h_predicted[n_models])
        batches == (predicted + batch_size - 1) \div batch_size
    IN /\ global_sample_count = pre + batch_size * batches
       /\ global_sample_count >= pre + predicted

\* C6 witness: after pretraining, two or more samples have been predicted.
CountWitness ==
    /\ pretrain_size > 0
    /\ Cardinality(h_predicted[n_models]) >= 2
    /\ global_sample_count > Cardinality(h_predicted[n_models])

\* C7 (as claimed): the delay queue is empty when DONE is reached.
QueueEmptyAtDone == pc = "done" => delay_queue = <<>>

\* C8: when the new batch is about to be enqueued, the watermark is the
\* batch's last arrival time, the drain was made at that watermark, every
\* model's accumulator has been fed exactly the released samples, every model
\* has been fitted on exactly the pretraining and released samples, and each
\* prediction for the batch was made by a model fitted on exactly those and
\* on no sample of the batch, which is not in the queue yet.
TestThenTrainOrder ==
    pc = "enqueue" =>
        LET batchIds == Range(Column(current_batch, "X"))
            known == {<<i, i>> : i \in PretrainIds \cup Released}
        IN /\ current_timestamp = current_batch[Len(current_batch)].arrival_time
           /\ h_drain.t = current_timestamp
           /\ Range(Column(h_drain.out, "X")) = Range(X_delayed)
           /\ batchIds \cap Released = {}
           /\ \A r \in Range(delay_queue) : r.X \notin batchIds
           /\ \A j \in Models :
                 /\ {e[2].X : e \in Range(mean_eval[j])} = Released
                 /\ {e[2].X : e \in Range(current_eval[j])} = Released
                 /\ fitted[j] = known
                 /\ \A k \in 1..Len(y_pred) :
                       /\ y_pred[k][j].X = current_batch[k].X
                       /\ y_pred[k][j].model = j
                       /\ y_pred[k][j].seen = known

\* C8 witness: a batch was predicted in an iteration that released rows.
OrderWitness ==
    /\ pc = "enqueue"
    /\ n_models = 2
    /\ iteration >= 2
    /\ X_delayed # <<>>

SnapshotAtBudgetLimit ==
    (/\ pc = "done"
     /\ exc = "none"
     /\ iteration >= 1
     /\ global_sample_count >= actual_max_samples)
       => \E k \in 1..Len(snapshots) : snapshots[k] >= actual_max_samples

\* C11 (as claimed): an exception raised in a loop iteration is caught and
\* never leaves the run; the run then reaches DONE once, where the summary
\* has been printed once unless metrics holds nothing but data points, the
\* stream has been restarted once iff restart_stream is set, and the models
\* have been returned.
CaughtExceptionEndsInDone ==
    exc # "none" =>
        /\ pc # "raised"
        /\ pc = "done" =>
              /\ summaries = (IF only_data_points THEN 0 ELSE 1)
              /\ restarts = (IF restart_stream THEN 1 ELSE 0)
              /\ returned
        /\ pc # "done" => (summaries = 0 /\ restarts = 0 /\ ~returned)

\* The samples model j's cumulative and windowed accumulators have been fed.
FedMean(j) == {e[2].X : e \in Range(mean_eval[j])}
FedCurrent(j) == {e[2].X : e \in Range(current_eval[j])}

\* C12 (as claimed): after a model's predict raised in iteration k, the loop
\* is over, the accumulators hold exactly the rows released before
\* iteration k, and the models keep what they were fitted on.
PredictFailureKeepsEarlierIterations ==
    h_raised_at = "predict" =>
        /\ pc \in {"except"} \cup AfterLoop
        /\ \A j \in Models :
              /\ FedMean(j) = Released \ Range(X_delayed)
              /\ FedCurrent(j) = Released \ Range(X_delayed)
              /\ {<<i, i>> : i \in PretrainIds \cup (Released \ Range(X_delayed))}
                    \subseteq fitted[j]

\* C12 (amended): after a model's predict raised in iteration k, the loop is
\* over and the count is as it was when the iteration began; the
\* accumulators of every model hold exactly the rows released up to and
\* including iteration k's own drain, every model is still fitted on exactly
\* the pretraining and released samples, the batch of iteration k is not in
\* the queue, and the summary is printed once DONE is reached.
PredictFailureKeepsProgress ==
    h_raised_at = "predict" =>
        /\ pc \in {"except"} \cup AfterLoop
        /\ global_sample_count = h_entry
        /\ \A r \in Range(delay_queue) : r.X \notin Range(Column(current_batch, "X"))
        /\ \A j \in Models :
              /\ FedMean(j) = Released
              /\ FedCurrent(j) = Released
              /\ Len(mean_eval[j]) = Cardinality(Released)
              /\ fitted[j] = {<<i, i>> : i \in PretrainIds \cup Released}
        /\ pc = "done" => (summaries = 1 /\ returned)

\* C12 witness: with two models, predict raised in an iteration whose drain
\* had released rows, and the run is done.
PredictFailureWitness ==
    /\ h_raised_at = "predict"
    /\ n_models = 2
    /\ X_delayed # <<>>
    /\ iteration >= 2
    /\ pc = "done"

\* C13: the watermark never decreases from one state to the next; when
\* the pretraining block ends it is the arrival time of the last
\* pretraining sample, and from the moment an iteration has set it, through
\* the rest of the run, it is the arrival time of the last sample of the
\* batch pulled last.
WatermarkMonotone ==
    [][/\ current_timestamp' >= current_timestamp
       /\ (pc' = "evaluating" /\ pretrain_size > 0)
            => current_timestamp' = Min(pretrain_size, n_samples)
       /\ (pc' # "timestamp" /\ current_batch' # <<>>)
            => current_timestamp' = current_batch'[Len(current_batch')].arrival_time]_vars

\* C13 witness: the second iteration has ended; the watermark went from
\* the last pretraining sample to the last sample of the first batch, a
\* batch of two, and on to the last sample of the second batch.
WatermarkWitness ==
    /\ pc = "while"
    /\ iteration = 2
    /\ batch_size = 2
    /\ pretrain_size = 1
    /\ current_batch # <<>>
    /\ current_timestamp = current_batch[Len(current_batch)].arrival_time
    /\ current_timestamp = 4

\* ------------------------------------------------------------------- C14
AscendingAvailable(rows) ==
    \A i \in 1..Len(rows), k \in 1..Len(rows) :
        i < k => rows[i].available_time <= rows[k].available_time

\* C14: in every state the delay queue is in ascending available_time, and
\* the rows the last drain returned are in ascending available_time.
QueueAlwaysSorted ==
    /\ AscendingAvailable(delay_queue)
    /\ AscendingAvailable(h_drain.out)

\* C14 witness: a batch of two was enqueued with the sample that arrived
\* later due first; the next drain met that queue and returned both rows,
\* the later sample first, and the next batch has been enqueued since.
QueueSortedWitness ==
    /\ pc = "end_time"
    /\ Len(h_drain.before) >= 2
    /\ h_drain.before[1].X > h_drain.before[2].X
    /\ h_drain.before[1].available_time < h_drain.before[2].available_time
    /\ Len(h_drain.out) >= 2
    /\ h_drain.out[1].X > h_drain.out[2].X
    /\ Len(delay_queue) >= 1

\* ------------------------------------------------------------------- C15
PretrainPairs == {<<i, i>> : i \in 1..Min(pretrain_size, n_samples)}

\* C15: with pretrain_size > 0, when the pretraining block has ended the
\* watermark is the arrival time of the last pretraining sample and the
\* delay queue exists and is empty; the drain of the first iteration
\* returns nothing; until the second iteration starts no accumulator has
\* an entry, no snapshot is taken and every model holds the pretraining
\* fit only; and when the first iteration has enqueued, the queue holds
\* exactly the rows of the first batch.
FirstIterationAfterPretrain ==
    pretrain_size > 0 =>
        /\ pc = "evaluating" =>
              /\ current_timestamp = Min(pretrain_size, n_samples)
              /\ delay_queue_set
              /\ delay_queue = <<>>
        /\ (iteration = 1 /\ pc \in {"metrics", "classifiers", "predict", "enqueue", "end_time"}) =>
              /\ h_drain.before = <<>>
              /\ h_drain.out = <<>>
              /\ X_delayed = <<>>
              /\ y_real_delayed = <<>>
              /\ y_pred_delayed = <<>>
        /\ (iteration <= 1 /\ pc # "start" /\ pc # "pretrain") =>
              /\ \A j \in Models : mean_eval[j] = <<>> /\ current_eval[j] = <<>>
              /\ snapshots = <<>>
              /\ \A j \in Models : fitted[j] = PretrainPairs
        /\ (iteration = 1 /\ pc = "end_time") =>
              /\ Len(delay_queue) = Len(current_batch)
              /\ Range(delay_queue) = Range(DelayFrame(current_batch, y_pred))
              /\ {r.X : r \in Range(delay_queue)} = {r.X : r \in Range(current_batch)}

\* C15 witness: the first iteration after a pretraining block has enqueued
\* a batch of two, one of its rows with no delay at all.
FirstIterationWitness ==
    /\ pretrain_size > 0
    /\ iteration = 1
    /\ pc = "end_time"
    /\ Len(delay_queue) = 2
    /\ \E r \in Range(delay_queue) : r.available_time = r.arrival_time

\* ------------------------------------------------------------------- C16
\* C16: once the elapsed time recorded at the end of an iteration has
\* reached max_time, it stays there and no further iteration starts; so a
\* first iteration that takes max_time or more is the only one.
MaxTimeBoundsLoop ==
    [][elapsed >= max_time =>
          /\ iteration' = iteration
          /\ elapsed' >= max_time
          /\ pc' \notin InIteration]_vars

\* C16 witness: the loop has stopped after one iteration on the time budget
\* alone: samples and sample budget remain.
MaxTimeWitness ==
    /\ pc = "flush"
    /\ exc = "none"
    /\ iteration = 1
    /\ elapsed >= max_time
    /\ global_sample_count < actual_max_samples
    /\ HasMoreSamples
    /\ max_samples = 100

\* ------------------------------------------------------------------- C17
\* C17: a second call of _get_delayed_samples at the same watermark, with
\* no enqueue in between, returns no row and leaves the queue as the first
\* call left it.
DrainTwiceIsIdempotent ==
    pc = "called_twice" =>
        /\ h_drain.t = current_timestamp
        /\ h_drain.out = <<>>
        /\ X_delayed = <<>>
        /\ y_real_delayed = <<>>
        /\ y_pred_delayed = <<>>
        /\ delay_queue = h_drain.before

\* C17 witness: both calls are made; the first released a row and kept
\* another, one due right after the watermark.
DrainTwiceWitness ==
    /\ pc = "called_twice"
    /\ \E i \in DOMAIN h_released : h_released[i] = 1
    /\ \E r \in Range(delay_queue) : r.available_time = current_timestamp + 1

\* ------------------------------------------------------------------- C18
\* The released samples whose rows have gone through _update_metrics_delayed.
FedSamples == Released \ (IF pc = "metrics" THEN Range(X_delayed) ELSE {})

\* In accumulator acc, sample i has exactly one add_result, and it carries
\* what predict answered for i.
PairedOnce(acc, answers, i) ==
    /\ Cardinality({k \in 1..Len(acc) : acc[k][1] = i}) = 1
    /\ \A k \in 1..Len(acc) : acc[k][1] = i => acc[k][2] = answers[i]

\* C18: for every model j and every released sample, the cumulative and the
\* windowed accumulator of j have received exactly one add_result for the
\* sample, with the sample's label and with what model j's own predict
\* answered for it, and no add_result else.
PredictionPairing ==
    \A j \in Models :
        /\ Len(mean_eval[j]) = Cardinality(FedSamples)
        /\ Len(current_eval[j]) = Cardinality(FedSamples)
        /\ \A i \in FedSamples :
              /\ PairedOnce(mean_eval[j], h_output[j], i)
              /\ PairedOnce(current_eval[j], h_output[j], i)

\* ------------------------------------------------------------------- C19
\* C19: the handler of an exception caught in an iteration makes one
\* _update_metrics call when the exception is a KeyboardInterrupt, and none
\* for any other exception.
InterruptUpdatesMetrics ==
    [][pc = "except" =>
          Len(snapshots') = Len(snapshots)
                              + (IF exc = "KeyboardInterrupt" THEN 1 ELSE 0)]_vars

\* ------------------------------------------------------------------- C20
\* The samples of the batch pulled last, and those with a row in the queue.
BatchIds == {r.X : r \in Range(current_batch)}
QueuedIds == {r.X : r \in Range(delay_queue)}

\* C20: a sample of the batch pulled last, or one whose row is still in the
\* queue, has been returned by no drain, is in no accumulator and has been
\* given to no partial_fit: a record is released by a drain of a later
\* iteration than the one that predicted it or not at all, whatever its
\* available_time.
NotReleasedWhenPredicted ==
    \A i \in BatchIds \cup QueuedIds :
        /\ h_released[i] = 0
        /\ i \notin Range(X_delayed)
        /\ \A j \in Models :
              /\ <<i, i>> \notin fitted[j]
              /\ \A k \in 1..Len(mean_eval[j]) : mean_eval[j][k][1] # i
              /\ \A k \in 1..Len(current_eval[j]) : current_eval[j][k][1] # i

\* C20 witness: the run is over; a sample of the last batch was predicted
\* and enqueued with no delay, due at the watermark of its own iteration,
\* and no drain returned it.
NotReleasedWitness ==
    /\ pc = "done"
    /\ \E r \in Range(current_batch) :
          /\ r.available_time = r.arrival_time
          /\ r.available_time <= current_timestamp
          /\ r.X \in DOMAIN h_stored
          /\ h_released[r.X] = 0
    /\ Released # {}

\* ------------------------------------------------------------------- C21
\* The samples that were enqueued and that no drain has returned.
Leftover == {i \in DOMAIN h_stored : h_released[i] = 0}

\* A step from a state after the loop: no add_result and no partial_fit is
\* made, and no sample left in the queue is in an accumulator or in what a
\* model was fitted on.
StepAfterLoopUsesNoLabel ==
    pc \in AfterLoop =>
        /\ fitted' = fitted
        /\ mean_eval' = mean_eval
        /\ current_eval' = current_eval
        /\ \A i \in Leftover' : \A j \in Models :
              /\ <<i, i>> \notin fitted'[j]
              /\ \A k \in 1..Len(mean_eval'[j]) : mean_eval'[j][k][1] # i
              /\ \A k \in 1..Len(current_eval'[j]) : current_eval'[j][k][1] # i

\* C21: the records still in the queue when the loop is left are never
\* used: every step after the loop leaves the accumulators and the models'
\* fits as they are, none of them holding a leftover sample.
LeftoverNeverUsed == [][StepAfterLoopUsesNoLabel]_vars

\* C21 witness: the run is over; two or more samples were left in the queue when
\* the loop ended, the flush dropped some of their rows, and other samples
\* were released while the loop ran.
LeftoverWitness ==
    /\ pc = "done"
    /\ Cardinality(Leftover) >= 2
    /\ Len(delay_queue) < Cardinality(Leftover)
    /\ Len(delay_queue) >= 1
    /\ Released # {}

\* ------------------------------------------------------------------- C22
\* C22: once predict has raised in an iteration, the batch of that
\* iteration has been taken from the stream but has no row in the queue and
\* was never enqueued; the count is the one the iteration began with; the
\* queue is, until the flush works on it, what the iteration's drain left;
\* and no sample of the batch has been released, fed to an accumulator or
\* given to partial_fit.
FailedBatchIsDropped ==
    h_raised_at = "predict" =>
        /\ BatchIds # {}
        /\ BatchIds \cap QueuedIds = {}
        /\ BatchIds \cap DOMAIN h_stored = {}
        /\ global_sample_count = h_entry
        /\ pc \in {"except", "flush"} =>
              /\ delay_queue = h_drain.left
              /\ sample_idx = current_batch[Len(current_batch)].X
        /\ Range(delay_queue) \subseteq Range(h_drain.left)
        /\ \A i \in BatchIds :
              /\ h_released[i] = 0
              /\ \A j \in Models :
                    /\ <<i, i>> \notin fitted[j]
                    /\ \A k \in 1..Len(mean_eval[j]) : mean_eval[j][k][1] # i
                    /\ \A k \in 1..Len(current_eval[j]) : current_eval[j][k][1] # i

\* C22 witness: in the second iteration the second of two models raised in
\* predict after the first had answered, with rows waiting in the queue,
\* and the handler is about to run.
FailedBatchWitness ==
    /\ pc = "except"
    /\ h_raised_at = "predict"
    /\ iteration = 2
    /\ n_models = 2
    /\ h_predicted[1] \cap BatchIds # {}
    /\ delay_queue # <<>>

\* ------------------------------------------------------------------- C23
\* ceil((actual_max_samples - pretrain_size) / batch_size), 0 when the
\* pretraining block has used up the budget
IterationBound ==
    IF actual_max_samples > pretrain_size
    THEN (actual_max_samples - pretrain_size + batch_size - 1) \div batch_size
    ELSE 0

UpdateCountBehindSampleCount ==
    /\ [](pretrain_size > 0 =>
            /\ update_count * n_wait <= global_sample_count
            /\ update_count <= iteration)
    /\ [][update_count' # update_count =>
            /\ pc = "metrics"
            /\ update_count' = update_count + 1]_vars

\* C24 witness: a snapshot has just been taken at a count that is exactly
\* update_count times a cadence of two.
UpdateCountWitness ==
    /\ pretrain_size > 0
    /\ pc = "classifiers"
    /\ n_wait = 2
    /\ update_count >= 1
    /\ Len(snapshots) = update_count
    /\ update_count * n_wait = global_sample_count

====
